---- MODULE Spec2Model ----
(***************************************************************************)
(* A model of zenix's VGA text console (src/vga.rs) and of the kernel      *)
(* entry point that drives it (src/main.rs).                               *)
(*                                                                         *)
(* Bytes are naturals 0..255, a &str is the sequence of its bytes, a       *)
(* ScreenChar is a record and the Buffer is chars[row][col], as in the     *)
(* source.  The Writer is a record of its four fields plus three history   *)
(* fields that the program does not have and that only observe it:         *)
(*   stores    how many Volatile writes the current call has made,         *)
(*   log       one entry per write_byte call of the current call: the byte *)
(*             it was given, the cursor it found, the stores it made,      *)
(*   panicked  an array index was out of range (Rust panics there).        *)
(***************************************************************************)
EXTENDS Naturals, Sequences, FiniteSets

(***************************************************************************)
(* Bounds of the model.                                                    *)
(***************************************************************************)
MaxOps == 3
NumCallers == 2
MaxCalls == 3
LiveCalls == 2
PanicCalls == 2

(***************************************************************************)
(* Program constants.                                                      *)
(***************************************************************************)
BUFFER_HEIGHT == 25
BUFFER_WIDTH == 80
NEWLINE == 10
SPACE == 32
PLACEHOLDER == 254
START_LINES == 40

Black == 0
White == 15

(***************************************************************************)
(* Cell encoding.                                                          *)
(***************************************************************************)
RECURSIVE BitOr(_, _)
BitOr(a, b) ==
    IF a = 0 THEN b
    ELSE IF b = 0 THEN a
    ELSE (IF a % 2 = 1 \/ b % 2 = 1 THEN 1 ELSE 0) + 2 * BitOr(a \div 2, b \div 2)

Shl8(a, n) == (a * 2^n) % 256

(* Faulty variant: the foreground shifted instead of the background.       *)
ColorCode_new_swapped(foreground, background) ==
    BitOr(Shl8(foreground, 4), background)

ColorCode_new(foreground, background) == BitOr(Shl8(background, 4), foreground)

ScreenChar(byte, color_code) == [ascii_character |-> byte, color_code |-> color_code]

(***************************************************************************)
(* The memory at 0xb8000 is not written by the construction of the Writer: *)
(* it holds whatever the firmware left there.  HwBuffer(k) is a screen     *)
(* whose first k rows hold firmware text and whose other rows are blank.   *)
(***************************************************************************)
HwBuffer(k) ==
    [row \in 0..(BUFFER_HEIGHT - 1) |->
        [col \in 0..(BUFFER_WIDTH - 1) |->
            IF row < k
            THEN ScreenChar(48 + ((row * 3 + col) % 10), 7)
            ELSE ScreenChar(SPACE, ColorCode_new(White, Black))]]

BootRows == {0, 2, 25}

NewWriter(hw) ==
    [current_col |-> 0,
     current_row |-> 0,
     default_color_code |-> ColorCode_new(White, Black),
     buffer |-> hw,
     stores |-> 0,
     log |-> <<>>,
     panicked |-> FALSE]

(***************************************************************************)
(* Volatile access to buffer.chars[row][col].  Indexing the array out of   *)
(* range panics.                                                           *)
(***************************************************************************)
InRange(row, col) ==
    /\ row \in 0..(BUFFER_HEIGHT - 1)
    /\ col \in 0..(BUFFER_WIDTH - 1)

chars_write(self, row, col, character) ==
    IF self.panicked THEN self
    ELSE IF ~InRange(row, col) THEN [self EXCEPT !.panicked = TRUE]
    ELSE [self EXCEPT !.buffer[row][col] = character, !.stores = @ + 1]

(***************************************************************************)
(* Writer::clear_row: the loop over col stores the blank cell in each of   *)
(* the BUFFER_WIDTH cells of the row.                                      *)
(***************************************************************************)
(* Faulty variant: the loop stops one column early.                        *)
clear_row_short(self, row) ==
    IF self.panicked THEN self
    ELSE IF ~InRange(row, 0) THEN [self EXCEPT !.panicked = TRUE]
    ELSE [self EXCEPT
            !.buffer[row] =
                [col \in 0..(BUFFER_WIDTH - 1) |->
                    IF col < BUFFER_WIDTH - 1
                    THEN ScreenChar(SPACE, self.default_color_code)
                    ELSE self.buffer[row][col]],
            !.stores = @ + (BUFFER_WIDTH - 1)]

(* Faulty variant: the cursor row is cleared, whatever row is asked for.    *)
clear_row_cursor(self, row) ==
    IF self.panicked THEN self
    ELSE IF ~InRange(row, 0) THEN [self EXCEPT !.panicked = TRUE]
    ELSE [self EXCEPT
            !.buffer[self.current_row] =
                [col \in 0..(BUFFER_WIDTH - 1) |->
                    ScreenChar(SPACE, self.default_color_code)],
            !.stores = @ + BUFFER_WIDTH]

clear_row(self, row) ==
    IF self.panicked THEN self
    ELSE IF ~InRange(row, 0) THEN [self EXCEPT !.panicked = TRUE]
    ELSE [self EXCEPT
            !.buffer[row] =
                [col \in 0..(BUFFER_WIDTH - 1) |->
                    ScreenChar(SPACE, self.default_color_code)],
            !.stores = @ + BUFFER_WIDTH]

(***************************************************************************)
(* Writer::new_line.  shift_cols is the inner loop (one row copied into    *)
(* the row above it, cell by cell), shift_rows the outer loop, which runs  *)
(* over the rows in increasing order and works in place.                   *)
(***************************************************************************)
(* Faulty variant: the copy goes from the row above into the row.          *)
shift_cols_swapped(self, row) ==
    IF self.panicked THEN self
    ELSE IF ~(InRange(row, 0) /\ InRange(row - 1, 0))
    THEN [self EXCEPT !.panicked = TRUE]
    ELSE [self EXCEPT
            !.buffer[row] =
                [col \in 0..(BUFFER_WIDTH - 1) |-> self.buffer[row - 1][col]],
            !.stores = @ + BUFFER_WIDTH]

shift_cols(self, row) ==
    IF self.panicked THEN self
    ELSE IF ~(InRange(row, 0) /\ InRange(row - 1, 0))
    THEN [self EXCEPT !.panicked = TRUE]
    ELSE [self EXCEPT
            !.buffer[row - 1] =
                [col \in 0..(BUFFER_WIDTH - 1) |-> self.buffer[row][col]],
            !.stores = @ + BUFFER_WIDTH]

RECURSIVE shift_rows(_, _)
shift_rows(self, row) ==
    IF self.panicked \/ row >= BUFFER_HEIGHT THEN self
    ELSE shift_rows(shift_cols(self, row), row + 1)

reset_col(self) ==
    IF self.panicked THEN self ELSE [self EXCEPT !.current_col = 0]

(* Faulty variants: the last row taken to be BUFFER_HEIGHT; the row        *)
(* reached by an advance cleared; the shift started at row 0.              *)
new_line_late(self) ==
    reset_col(IF self.current_row = BUFFER_HEIGHT
              THEN clear_row(shift_rows(self, 1), self.current_row)
              ELSE [self EXCEPT !.current_row = @ + 1])

new_line_clearing(self) ==
    reset_col(IF self.current_row = BUFFER_HEIGHT - 1
              THEN clear_row(shift_rows(self, 1), self.current_row)
              ELSE clear_row([self EXCEPT !.current_row = @ + 1],
                             self.current_row + 1))

new_line_from0(self) ==
    reset_col(IF self.current_row = BUFFER_HEIGHT - 1
              THEN clear_row(shift_rows(self, 0), self.current_row)
              ELSE [self EXCEPT !.current_row = @ + 1])

(* Faulty variant: the cursor goes back to row 0 when the last row is full. *)
new_line_paged(self) ==
    reset_col(IF self.current_row = BUFFER_HEIGHT - 1
              THEN [self EXCEPT !.current_row = 0]
              ELSE [self EXCEPT !.current_row = @ + 1])

new_line(self) ==
    reset_col(IF self.current_row = BUFFER_HEIGHT - 1
              THEN clear_row(shift_rows(self, 1), self.current_row)
              ELSE [self EXCEPT !.current_row = @ + 1])

(***************************************************************************)
(* Writer::write_byte                                                      *)
(***************************************************************************)
(* Faulty variants: the column not incremented; the wrap one column early; *)
(* the row read before the wrap.                                           *)
write_byte_body_noinc(self, byte) ==
    IF byte = NEWLINE THEN new_line(self)
    ELSE LET wrapped ==
                 IF self.current_col >= BUFFER_WIDTH THEN new_line(self) ELSE self
         IN  chars_write(wrapped, wrapped.current_row, wrapped.current_col,
                         ScreenChar(byte, wrapped.default_color_code))

write_byte_body_early(self, byte) ==
    IF byte = NEWLINE THEN new_line(self)
    ELSE LET wrapped ==
                 IF self.current_col >= BUFFER_WIDTH - 1 THEN new_line(self) ELSE self
             stored ==
                 chars_write(wrapped, wrapped.current_row, wrapped.current_col,
                             ScreenChar(byte, wrapped.default_color_code))
         IN  IF stored.panicked THEN stored
             ELSE [stored EXCEPT !.current_col = @ + 1]

write_byte_body_stale(self, byte) ==
    IF byte = NEWLINE THEN new_line(self)
    ELSE LET wrapped ==
                 IF self.current_col >= BUFFER_WIDTH THEN new_line(self) ELSE self
             stored ==
                 chars_write(wrapped, self.current_row, wrapped.current_col,
                             ScreenChar(byte, wrapped.default_color_code))
         IN  IF stored.panicked THEN stored
             ELSE [stored EXCEPT !.current_col = @ + 1]

(* Faulty variants: the wrap only past column 80; the column incremented   *)
(* before the store; the wrap tested before the newline.                   *)
write_byte_body_gt(self, byte) ==
    IF byte = NEWLINE THEN new_line(self)
    ELSE LET wrapped ==
                 IF self.current_col > BUFFER_WIDTH THEN new_line(self) ELSE self
             stored ==
                 chars_write(wrapped, wrapped.current_row, wrapped.current_col,
                             ScreenChar(byte, wrapped.default_color_code))
         IN  IF stored.panicked THEN stored
             ELSE [stored EXCEPT !.current_col = @ + 1]

write_byte_body_preinc(self, byte) ==
    IF byte = NEWLINE THEN new_line(self)
    ELSE LET wrapped ==
                 IF self.current_col >= BUFFER_WIDTH THEN new_line(self) ELSE self
             stored ==
                 chars_write(wrapped, wrapped.current_row, wrapped.current_col + 1,
                             ScreenChar(byte, wrapped.default_color_code))
         IN  IF stored.panicked THEN stored
             ELSE [stored EXCEPT !.current_col = @ + 1]

write_byte_body_wrapfirst(self, byte) ==
    LET wrapped ==
            IF self.current_col >= BUFFER_WIDTH THEN new_line(self) ELSE self
    IN  IF byte = NEWLINE THEN new_line(wrapped)
        ELSE LET stored ==
                     chars_write(wrapped, wrapped.current_row, wrapped.current_col,
                                 ScreenChar(byte, wrapped.default_color_code))
             IN  IF stored.panicked THEN stored
                 ELSE [stored EXCEPT !.current_col = @ + 1]

write_byte_body(self, byte) ==
    IF byte = NEWLINE THEN new_line(self)
    ELSE LET wrapped ==
                 IF self.current_col >= BUFFER_WIDTH THEN new_line(self) ELSE self
             stored ==
                 chars_write(wrapped, wrapped.current_row, wrapped.current_col,
                             ScreenChar(byte, wrapped.default_color_code))
         IN  IF stored.panicked THEN stored
             ELSE [stored EXCEPT !.current_col = @ + 1]

write_byte(self, byte) ==
    IF self.panicked THEN self
    ELSE LET after == write_byte_body(self, byte)
         IN  [after EXCEPT !.log =
                  Append(@, [byte |-> byte,
                             row |-> self.current_row,
                             col |-> self.current_col,
                             stores |-> after.stores - self.stores])]

(***************************************************************************)
(* Writer::write_string                                                    *)
(***************************************************************************)
(* Faulty variant: 0x7F taken to be printable.                             *)
write_string_byte_del(self, byte) ==
    IF (byte >= 32 /\ byte <= 127) \/ byte = NEWLINE
    THEN write_byte(self, byte)
    ELSE write_byte(self, PLACEHOLDER)

write_string_byte(self, byte) ==
    IF (byte >= 32 /\ byte <= 126) \/ byte = NEWLINE
    THEN write_byte(self, byte)
    ELSE write_byte(self, PLACEHOLDER)

(***************************************************************************)
(* The loop over s.bytes(): the bytes lo..hi of s, handled from left to    *)
(* right (the range is halved only to keep the evaluation shallow).        *)
(***************************************************************************)
RECURSIVE write_string_bytes(_, _, _, _)
write_string_bytes(self, s, lo, hi) ==
    IF self.panicked \/ lo > hi THEN self
    ELSE IF lo = hi THEN write_string_byte(self, s[lo])
    ELSE write_string_bytes(
            write_string_bytes(self, s, lo, (lo + hi) \div 2),
            s, ((lo + hi) \div 2) + 1, hi)

(* Faulty variant: every call begins at column 0 of the cursor row.        *)
write_string_home(self, s) ==
    write_string_bytes([self EXCEPT !.current_col = 0], s, 1, Len(s))

write_string(self, s) == write_string_bytes(self, s, 1, Len(s))

write_str(self, s) == write_string(self, s)

Entered(self) == [self EXCEPT !.stores = 0, !.log = <<>>]

(***************************************************************************)
(* Inputs.                                                                 *)
(***************************************************************************)
Rep(byte, n) == [k \in 1..n |-> byte]
FullRow == [k \in 1..BUFFER_WIDTH |-> 32 + k]
HelloWorld == <<72, 101, 108, 108, 111, 32, 87, 111, 114, 108, 100, 33>>

ByteInputs == {NEWLINE, 65, 9, 255}
AllBytes == [k \in 1..256 |-> k - 1]

Overflow == Rep(NEWLINE, BUFFER_HEIGHT - 1) \o FullRow \o <<65, NEWLINE>>

StringInputs ==
    {Rep(NEWLINE, BUFFER_HEIGHT - 1), FullRow, HelloWorld, AllBytes, Overflow}

Messages ==
    {<<<<97, 98>>>>,
     <<<<120>>, <<NEWLINE>>>>,
     <<<<195, 169>>>>}

(***************************************************************************)
(* core::fmt's decimal rendering of the loop counter and the pieces that   *)
(* println!("line {}", i) hands to write_str, in order.                    *)
(***************************************************************************)
RECURSIVE Decimal(_)
Decimal(n) ==
    IF n < 10 THEN <<48 + n>>
    ELSE Append(Decimal(n \div 10), 48 + (n % 10))

LinePrefix == <<108, 105, 110, 101, 32>>

println_line(n) == <<LinePrefix, Decimal(n), <<NEWLINE>>>>

(***************************************************************************)
(* State.  Init is the state in which lazy_static has built WRITER.        *)
(*   WRITER   the Writer inside the global Mutex                           *)
(*   locked   the Mutex's lock flag                                        *)
(*   pc, args each caller's position in _print and the pieces of its       *)
(*            fmt::Arguments that are still to be written                  *)
(*   i        the loop counter of _start                                   *)
(* History: boot is the screen found at construction, old the Writer as    *)
(* the last call found it, op the last call, written the number of bytes   *)
(* each caller has written in its current _print, n_ops and calls count    *)
(* the calls made so far.                                                  *)
(*   handler  the callers whose panic handler is running                   *)
(*   cursor   disable_cursor: its position, its locals and the port        *)
(*            accesses it has made, in order                               *)
(*   color    the last ColorCode built: its two colors, its byte, and the  *)
(*            number of calls of ColorCode::new after the Writer's own     *)
(***************************************************************************)
VARIABLES WRITER, locked, pc, args, i, boot, old, op, written, n_ops, calls,
          handler, cursor, color

vars == <<WRITER, locked, pc, args, i, boot, old, op, written, n_ops, calls,
          handler, cursor, color>>

Callers == 1..NumCallers

Init ==
    /\ \E k \in BootRows : boot = HwBuffer(k)
    /\ WRITER = NewWriter(boot)
    /\ locked = FALSE
    /\ pc = [p \in Callers |-> "idle"]
    /\ args = [p \in Callers |-> <<>>]
    /\ i = 0
    /\ old = WRITER
    /\ op = [name |-> "new", arg |-> <<>>, by |-> 0, held |-> FALSE]
    /\ written = [p \in Callers |-> 0]
    /\ n_ops = 0
    /\ calls = 0
    /\ handler = [p \in Callers |-> FALSE]
    /\ cursor = [pc |-> "read", misc_out |-> 0, crtc_addr |-> 0, crtc_data |-> 0,
                 io |-> <<>>]
    /\ color = [foreground |-> White, background |-> Black,
                code |-> ColorCode_new(White, Black), calls |-> 0]

(***************************************************************************)
(* Direct use of the Writer by one thread: WRITER.lock().write_byte(b)     *)
(* and WRITER.lock().write_string(s), each a whole call made with the gate *)
(* free and released again when the call returns.                          *)
(***************************************************************************)
WriteByte(byte) ==
    /\ n_ops < MaxOps
    /\ ~locked
    /\ ~WRITER.panicked
    /\ old' = WRITER
    /\ WRITER' = write_byte(Entered(WRITER), byte)
    /\ op' = [name |-> "write_byte", arg |-> <<byte>>, by |-> 0, held |-> TRUE]
    /\ n_ops' = n_ops + 1
    /\ UNCHANGED <<locked, pc, args, i, boot, written, calls,
                 handler, cursor, color>>

WriteString(s) ==
    /\ n_ops < MaxOps
    /\ ~locked
    /\ ~WRITER.panicked
    /\ old' = WRITER
    /\ WRITER' = write_string(Entered(WRITER), s)
    /\ op' = [name |-> "write_string", arg |-> s, by |-> 0, held |-> TRUE]
    /\ n_ops' = n_ops + 1
    /\ UNCHANGED <<locked, pc, args, i, boot, written, calls,
                 handler, cursor, color>>

NextWriter ==
    \/ \E byte \in ByteInputs : WriteByte(byte)
    \/ \E s \in StringInputs : WriteString(s)

SpecWriter == Init /\ [][NextWriter]_vars

(***************************************************************************)
(* _print, step by step: the call, WRITER.lock(), write_fmt one byte at a  *)
(* time, and the drop of the guard at the end of the statement.            *)
(***************************************************************************)
CallPrint(p, message) ==
    /\ pc[p] = "idle"
    /\ calls < MaxCalls
    /\ pc' = [pc EXCEPT ![p] = "lock"]
    /\ args' = [args EXCEPT ![p] = message]
    /\ written' = [written EXCEPT ![p] = 0]
    /\ calls' = calls + 1
    /\ UNCHANGED <<WRITER, locked, i, boot, old, op, n_ops,
                 handler, cursor, color>>

(* Faulty variant: the flag is set without being tested.                   *)
Lock_unchecked(p) ==
    /\ pc[p] = "lock"
    /\ locked' = TRUE
    /\ pc' = [pc EXCEPT ![p] = "write_fmt"]
    /\ UNCHANGED <<WRITER, args, i, boot, old, op, written, n_ops, calls,
                 handler, cursor, color>>

Lock(p) ==
    /\ pc[p] = "lock"
    /\ ~locked
    /\ locked' = TRUE
    /\ pc' = [pc EXCEPT ![p] = "write_fmt"]
    /\ UNCHANGED <<WRITER, args, i, boot, old, op, written, n_ops, calls,
                 handler, cursor, color>>

Rest(pieces) ==
    IF Len(Head(pieces)) > 1
    THEN <<Tail(Head(pieces))>> \o Tail(pieces)
    ELSE Tail(pieces)

WriteFmt(p) ==
    /\ pc[p] = "write_fmt"
    /\ args[p] # <<>>
    /\ old' = WRITER
    /\ WRITER' = write_string_byte(Entered(WRITER), Head(Head(args[p])))
    /\ op' = [name |-> "write_str", arg |-> <<Head(Head(args[p]))>>,
              by |-> p, held |-> locked]
    /\ args' = [args EXCEPT ![p] = Rest(args[p])]
    /\ written' = [written EXCEPT ![p] = @ + 1]
    /\ pc' = [pc EXCEPT ![p] =
                 IF WRITER'.panicked THEN "panic"
                 ELSE IF args'[p] = <<>> THEN "unlock"
                 ELSE "write_fmt"]
    /\ UNCHANGED <<locked, i, boot, n_ops, calls,
                 handler, cursor, color>>

(* Faulty variant: the caller returns without the guard being dropped.     *)
Unlock_leak(p) ==
    /\ pc[p] = "unlock"
    /\ pc' = [pc EXCEPT ![p] = "idle"]
    /\ UNCHANGED <<WRITER, locked, args, i, boot, old, op, written, n_ops, calls,
                   handler, cursor, color>>

Unlock(p) ==
    /\ pc[p] = "unlock"
    /\ locked' = FALSE
    /\ pc' = [pc EXCEPT ![p] = "idle"]
    /\ UNCHANGED <<WRITER, args, i, boot, old, op, written, n_ops, calls,
                 handler, cursor, color>>

Next ==
    \/ \E p \in Callers, message \in Messages : CallPrint(p, message)
    \/ \E p \in Callers : Lock(p)
    \/ \E p \in Callers : WriteFmt(p)
    \/ \E p \in Callers : Unlock(p)

Spec == Init /\ [][Next]_vars

(***************************************************************************)
(* A caller that is inside _print keeps running: nothing suspends it       *)
(* between lock() and the drop of the guard.  Nothing is assumed about     *)
(* who wins the gate.                                                      *)
(***************************************************************************)
LiveMessages == {<<<<97, 98>>>>, <<<<120>>, <<NEWLINE>>>>}

NextLive ==
    \/ \E p \in Callers, message \in LiveMessages :
          calls < LiveCalls /\ CallPrint(p, message)
    \/ \E p \in Callers : Lock(p)
    \/ \E p \in Callers : WriteFmt(p)
    \/ \E p \in Callers : Unlock(p)

SpecLive ==
    /\ Init
    /\ [][NextLive]_vars
    /\ \A p \in Callers : WF_vars(WriteFmt(p)) /\ WF_vars(Unlock(p))

(***************************************************************************)
(* _start: forty println!("line {}", i), then loop {}.  It runs as the     *)
(* caller 1.                                                               *)
(***************************************************************************)
StartPrintln ==
    /\ pc[1] = "idle"
    /\ i < START_LINES
    /\ pc' = [pc EXCEPT ![1] = "lock"]
    /\ args' = [args EXCEPT ![1] = println_line(i)]
    /\ written' = [written EXCEPT ![1] = 0]
    /\ i' = i + 1
    /\ UNCHANGED <<WRITER, locked, boot, old, op, n_ops, calls,
                 handler, cursor, color>>

StartHalt ==
    /\ pc[1] = "idle"
    /\ i = START_LINES
    /\ pc' = [pc EXCEPT ![1] = "halt"]
    /\ UNCHANGED <<WRITER, locked, args, i, boot, old, op, written, n_ops, calls,
                 handler, cursor, color>>

NextStart ==
    \/ StartPrintln
    \/ Lock(1)
    \/ WriteFmt(1)
    \/ Unlock(1)
    \/ StartHalt

SpecStart == Init /\ [][NextStart]_vars

(***************************************************************************)
(* disable_cursor, one port access per step.  The byte read from the       *)
(* Miscellaneous Output Register is whatever the hardware answers.         *)
(***************************************************************************)
RECURSIVE BitAnd(_, _)
BitAnd(a, b) ==
    IF a = 0 \/ b = 0 THEN 0
    ELSE (IF a % 2 = 1 /\ b % 2 = 1 THEN 1 ELSE 0) + 2 * BitAnd(a \div 2, b \div 2)

PortRead(port, value) == [kind |-> "read", port |-> port, value |-> value]
PortWrite(port, value) == [kind |-> "write", port |-> port, value |-> value]

(* Faulty variant: the two register pairs exchanged.                       *)
CursorReadStatus_swapped(status) ==
    /\ cursor.pc = "read"
    /\ cursor' = [pc |-> "addr",
                  misc_out |-> status,
                  crtc_addr |-> IF BitAnd(status, 1) = 0 THEN 980 ELSE 948,
                  crtc_data |-> IF BitAnd(status, 1) = 0 THEN 981 ELSE 949,
                  io |-> Append(cursor.io, PortRead(972, status))]
    /\ UNCHANGED <<WRITER, locked, pc, args, i, boot, old, op, written, n_ops,
                   calls, handler, color>>

CursorReadStatus(status) ==
    /\ cursor.pc = "read"
    /\ cursor' = [pc |-> "addr",
                  misc_out |-> status,
                  crtc_addr |-> IF BitAnd(status, 1) = 0 THEN 948 ELSE 980,
                  crtc_data |-> IF BitAnd(status, 1) = 0 THEN 949 ELSE 981,
                  io |-> Append(cursor.io, PortRead(972, status))]
    /\ UNCHANGED <<WRITER, locked, pc, args, i, boot, old, op, written, n_ops,
                   calls, handler, color>>

CursorWriteAddr ==
    /\ cursor.pc = "addr"
    /\ cursor' = [cursor EXCEPT
                    !.pc = "data",
                    !.io = Append(@, PortWrite(cursor.crtc_addr, 10))]
    /\ UNCHANGED <<WRITER, locked, pc, args, i, boot, old, op, written, n_ops,
                   calls, handler, color>>

CursorWriteData ==
    /\ cursor.pc = "data"
    /\ cursor' = [cursor EXCEPT
                    !.pc = "done",
                    !.io = Append(@, PortWrite(cursor.crtc_data, Shl8(1, 4)))]
    /\ UNCHANGED <<WRITER, locked, pc, args, i, boot, old, op, written, n_ops,
                   calls, handler, color>>

NextCursor ==
    \/ \E status \in 0..255 : CursorReadStatus(status)
    \/ CursorWriteAddr
    \/ CursorWriteData

SpecCursor == Init /\ [][NextCursor]_vars

(***************************************************************************)
(* A panic inside _print.  write_fmt returns Err when the Display of an    *)
(* argument does, and unwrap then panics while the guard of                *)
(* WRITER.lock() is still alive; nothing unwinds.  The panic handler       *)
(* calls println!("{}", info), that is _print again, in the same context,  *)
(* and would loop forever after it.                                        *)
(***************************************************************************)
PanicMessage == <<<<112, 97, 110, 105, 99>>, <<NEWLINE>>>>

(* Faulty variant: the guard is dropped when the panic starts.             *)
FmtError_unwind(p) ==
    /\ pc[p] = "write_fmt"
    /\ args[p] # <<>>
    /\ locked' = FALSE
    /\ pc' = [pc EXCEPT ![p] = "panic"]
    /\ UNCHANGED <<WRITER, args, i, boot, old, op, written, n_ops, calls,
                   handler, cursor, color>>

FmtError(p) ==
    /\ pc[p] = "write_fmt"
    /\ args[p] # <<>>
    /\ pc' = [pc EXCEPT ![p] = "panic"]
    /\ UNCHANGED <<WRITER, locked, args, i, boot, old, op, written, n_ops, calls,
                   handler, cursor, color>>

PanicHandler(p) ==
    /\ pc[p] = "panic"
    /\ handler' = [handler EXCEPT ![p] = TRUE]
    /\ args' = [args EXCEPT ![p] = PanicMessage]
    /\ written' = [written EXCEPT ![p] = 0]
    /\ pc' = [pc EXCEPT ![p] = "lock"]
    /\ UNCHANGED <<WRITER, locked, i, boot, old, op, n_ops, calls, cursor, color>>

NextPanic ==
    \/ \E p \in Callers, message \in Messages :
          calls < PanicCalls /\ CallPrint(p, message)
    \/ \E p \in Callers : Lock(p)
    \/ \E p \in Callers : WriteFmt(p)
    \/ \E p \in Callers : Unlock(p)
    \/ \E p \in Callers : FmtError(p)
    \/ \E p \in Callers : PanicHandler(p)

SpecPanic == Init /\ [][NextPanic]_vars

(***************************************************************************)
(* clear_row on its own: the row is any row of the grid, and the Writer is *)
(* fresh or has served one write call, before or after another clear_row.  *)
(***************************************************************************)
ClearRow(row) ==
    /\ n_ops <= 1
    /\ op.name # "clear_row"
    /\ ~WRITER.panicked
    /\ old' = WRITER
    /\ WRITER' = clear_row(Entered(WRITER), row)
    /\ op' = [name |-> "clear_row", arg |-> <<row>>, by |-> 0, held |-> TRUE]
    /\ UNCHANGED <<locked, pc, args, i, boot, written, n_ops, calls,
                   handler, cursor, color>>

NextClear ==
    \/ n_ops = 0 /\ NextWriter
    \/ \E row \in 0..(BUFFER_HEIGHT - 1) : ClearRow(row)

SpecClear == Init /\ [][NextClear]_vars

(***************************************************************************)
(* ColorCode::new on its own, for any two of the 16 colors.                *)
(***************************************************************************)
NewColorCode(foreground, background) ==
    /\ color.calls = 0
    /\ color' = [foreground |-> foreground, background |-> background,
                 code |-> ColorCode_new(foreground, background),
                 calls |-> color.calls + 1]
    /\ UNCHANGED <<WRITER, locked, pc, args, i, boot, old, op, written, n_ops,
                   calls, handler, cursor>>

NextColor == \E foreground \in 0..15, background \in 0..15 :
                 NewColorCode(foreground, background)

SpecColor == Init /\ [][NextColor]_vars

(***************************************************************************)
(* A message delivered in two pieces: write_str(a) and then write_str(b),  *)
(* as write_fmt does for the pieces of one fmt::Arguments, where a and b   *)
(* are the two parts of an input string cut at any of a few places.  The   *)
(* Writer is fresh or has served one call.                                 *)
(***************************************************************************)
Cuts(s) == {0, 1, Len(s) \div 2, Len(s) - 1, Len(s)}

WriteSplit(s, cut) ==
    /\ n_ops <= 1
    /\ op.name # "write_split"
    /\ ~WRITER.panicked
    /\ old' = WRITER
    /\ WRITER' = write_str(Entered(write_str(Entered(WRITER), SubSeq(s, 1, cut))),
                           SubSeq(s, cut + 1, Len(s)))
    /\ op' = [name |-> "write_split", arg |-> s, by |-> cut, held |-> TRUE]
    /\ n_ops' = n_ops + 1
    /\ UNCHANGED <<locked, pc, args, i, boot, written, calls,
                   handler, cursor, color>>

NextSplit ==
    \/ n_ops = 0 /\ NextWriter
    \/ \E s \in StringInputs : \E cut \in Cuts(s) : WriteSplit(s, cut)

SpecSplit == Init /\ [][NextSplit]_vars

(***************************************************************************)
(* Properties.                                                             *)
(***************************************************************************)
Rows == 0..(BUFFER_HEIGHT - 1)
Cols == 0..(BUFFER_WIDTH - 1)
LastRow == BUFFER_HEIGHT - 1
Blank == ScreenChar(SPACE, WRITER.default_color_code)
Holders == {p \in Callers : pc[p] \in {"write_fmt", "unlock"}}

(* C1: at most one caller of _print holds the WRITER gate, the gate is     *)
(* locked while a caller holds it, every write of the grid and the cursor  *)
(* is made with the gate held, and a caller that has begun to write is the *)
(* one that made the last write until it has released the gate: the writes *)
(* of two _print calls are never interleaved.                              *)
C1_MutualExclusion ==
    /\ Cardinality(Holders) <= 1
    /\ locked <=> Holders # {}
    /\ op.name = "write_str" => op.held
    /\ \A p \in Callers :
          (pc[p] \in {"write_fmt", "unlock"} /\ written[p] > 0) => op.by = p

C1_Witness ==
    \E p, q \in Callers :
        /\ p # q
        /\ pc[p] = "write_fmt"
        /\ written[p] > 0
        /\ pc[q] = "lock"
        /\ locked
        /\ op.by = p
        /\ WRITER.buffer # boot

(* C2: after any sequence of write_byte and write_string calls the cursor  *)
(* row is a row of the grid (0..24) and the cursor column is in 0..80.     *)
C2_CursorInvariant ==
    /\ WRITER.current_row \in 0..(BUFFER_HEIGHT - 1)
    /\ WRITER.current_col \in 0..BUFFER_WIDTH

C2_Witness ==
    /\ n_ops > 0
    /\ WRITER.current_row = BUFFER_HEIGHT - 1
    /\ WRITER.current_col = BUFFER_WIDTH

IsNewlineCall == op.name = "write_byte" /\ op.arg = <<NEWLINE>>

(* C3: write_byte('\n') on the last row scrolls: every cell of rows 0..23  *)
(* holds what the cell below it held, row 24 is blank in the default       *)
(* attribute, and the cursor is at row 24, column 0.                       *)
C3_NewlineScrolls ==
    (IsNewlineCall /\ old.current_row = LastRow) =>
        /\ \A r \in 0..(LastRow - 1), c \in Cols :
              WRITER.buffer[r][c] = old.buffer[r + 1][c]
        /\ \A c \in Cols : WRITER.buffer[LastRow][c] = Blank
        /\ WRITER.current_row = LastRow
        /\ WRITER.current_col = 0

C3_Witness ==
    /\ IsNewlineCall
    /\ old.current_row = LastRow
    /\ old.buffer[0] # old.buffer[1]
    /\ old.buffer[LastRow - 1] # old.buffer[LastRow]
    /\ \E c \in Cols : old.buffer[LastRow][c] # Blank
    /\ WRITER.buffer[0] # old.buffer[0]

(* C4: write_byte('\n') above the last row changes no cell of the grid,    *)
(* adds exactly one to the cursor row and sets the cursor column to 0.     *)
C4_NewlineAdvances ==
    (IsNewlineCall /\ old.current_row < LastRow) =>
        /\ WRITER.buffer = old.buffer
        /\ WRITER.current_row = old.current_row + 1
        /\ WRITER.current_col = 0
        /\ WRITER.default_color_code = old.default_color_code

C4_Witness ==
    /\ IsNewlineCall
    /\ old.current_row < LastRow
    /\ old.current_col > 0
    /\ \E c \in Cols : WRITER.buffer[WRITER.current_row][c] # Blank

Forwarded(byte) ==
    IF byte \in 32..126 \/ byte = NEWLINE THEN byte ELSE PLACEHOLDER

IsStringCall == op.name = "write_string"

(* C5: write_string hands write_byte one byte for each byte of its input,  *)
(* in order: the byte itself when it is in 0x20..0x7E or is newline, and   *)
(* 0xFE for every other value; no byte is skipped.                         *)
C5_Substitution ==
    IsStringCall =>
        /\ Len(WRITER.log) = Len(op.arg)
        /\ \A k \in 1..Len(op.arg) :
              /\ (op.arg[k] \in 32..126 \/ op.arg[k] = 10) =>
                    WRITER.log[k].byte = op.arg[k]
              /\ ~(op.arg[k] \in 32..126 \/ op.arg[k] = 10) =>
                    WRITER.log[k].byte = 254

C5_Witness ==
    /\ IsStringCall
    /\ op.arg = AllBytes
    /\ Len(WRITER.log) = 256
    /\ WRITER.log[10].byte = 254
    /\ WRITER.log[11].byte = 10
    /\ WRITER.log[128].byte = 254
    /\ WRITER.log[127].byte = 126

(* C6 as stated: every byte given to write_string makes exactly one store  *)
(* into the grid, and nothing fails.                                       *)
C6_OneStorePerByte ==
    IsStringCall =>
        /\ ~WRITER.panicked
        /\ Len(WRITER.log) = Len(op.arg)
        /\ \A k \in 1..Len(WRITER.log) : WRITER.log[k].stores = 1

ScrollStores == BUFFER_HEIGHT * BUFFER_WIDTH

(* C6 as amended: every byte given to write_string makes exactly one       *)
(* write_byte call and none fails; a byte other than newline stores        *)
(* exactly one cell of its own and a newline stores none, and a call that  *)
(* scrolls (a newline, or a byte found at column 80, on row 24) makes the  *)
(* 2000 stores of the scroll besides.                                      *)
C6_StoresPerByte ==
    IsStringCall =>
        /\ ~WRITER.panicked
        /\ Len(WRITER.log) = Len(op.arg)
        /\ \A k \in 1..Len(WRITER.log) :
              LET e == WRITER.log[k]
                  own == IF e.byte = NEWLINE THEN 0 ELSE 1
                  scrolls == /\ e.row = LastRow
                             /\ (e.byte = NEWLINE \/ e.col >= BUFFER_WIDTH)
              IN  e.stores = own + (IF scrolls THEN ScrollStores ELSE 0)

C6_Witness ==
    /\ IsStringCall
    /\ ~WRITER.panicked
    /\ \E k \in 1..Len(WRITER.log) : WRITER.log[k].stores = 0
    /\ \E k \in 1..Len(WRITER.log) : WRITER.log[k].stores = 1
    /\ \E k \in 1..Len(WRITER.log) : WRITER.log[k].stores = ScrollStores
    /\ \E k \in 1..Len(WRITER.log) : WRITER.log[k].stores = ScrollStores + 1

(***************************************************************************)
(* The text "line n" for a two-digit n, written out byte by byte.          *)
(***************************************************************************)
LineText(n) == <<108, 105, 110, 101, 32, 48 + (n \div 10), 48 + (n % 10)>>

(* C7: when _start has printed its 40 lines, rows 0..23 hold "line 16" to  *)
(* "line 39" in order, each from column 0 in the default attribute (the    *)
(* rest of such a row is blank if the row was written after a scroll and   *)
(* is what the screen held at construction otherwise), row 24 is blank and *)
(* the cursor is at row 24, column 0.                                      *)
C7_FortyLines ==
    pc[1] = "halt" =>
        /\ \A r \in 0..(LastRow - 1) :
              /\ \A k \in 1..7 :
                    WRITER.buffer[r][k - 1] =
                        ScreenChar(LineText(16 + r)[k], WRITER.default_color_code)
              /\ \A c \in 7..(BUFFER_WIDTH - 1) :
                    WRITER.buffer[r][c] =
                        IF 16 + r > LastRow THEN Blank ELSE boot[16 + r][c]
        /\ \A c \in Cols : WRITER.buffer[LastRow][c] = Blank
        /\ WRITER.current_row = LastRow
        /\ WRITER.current_col = 0
        /\ ~locked

C7_Witness ==
    /\ pc[1] = "halt"
    /\ i = 40
    /\ WRITER.buffer[0][5].ascii_character = 49
    /\ WRITER.buffer[0][6].ascii_character = 54
    /\ WRITER.buffer[23][5].ascii_character = 51
    /\ WRITER.buffer[23][6].ascii_character = 57
    /\ boot[LastRow][BUFFER_WIDTH - 1] # Blank

IsHelloWorld ==
    /\ IsStringCall
    /\ op.arg = HelloWorld
    /\ n_ops = 1

HelloWorldPlaced ==
    /\ \A k \in 1..12 :
          WRITER.buffer[0][k - 1] =
              ScreenChar(HelloWorld[k], WRITER.default_color_code)
    /\ WRITER.current_row = 0
    /\ WRITER.current_col = 12

(* C8 as stated: writing "Hello World!" to the freshly built console puts  *)
(* the 12 characters in row 0 from column 0, leaves the cursor at (0, 12), *)
(* and every other row is blank.                                           *)
C8_OtherRowsBlank ==
    IsHelloWorld =>
        /\ HelloWorldPlaced
        /\ \A r \in 1..LastRow, c \in Cols :
              WRITER.buffer[r][c].ascii_character = SPACE

(* C8 as amended: writing "Hello World!" to the freshly built console puts *)
(* the 12 characters in row 0 from column 0 and leaves the cursor at       *)
(* (0, 12); every other cell holds what the hardware buffer held when the  *)
(* console was built, so the other rows are blank only if they were blank  *)
(* before (construction does not clear the screen).                        *)
C8_HelloWorld ==
    IsHelloWorld =>
        /\ HelloWorldPlaced
        /\ \A r \in Rows, c \in Cols :
              (r # 0 \/ c >= 12) => WRITER.buffer[r][c] = boot[r][c]

C8_Witness ==
    /\ IsHelloWorld
    /\ WRITER.current_col = 12
    /\ WRITER.buffer[0][0].ascii_character = 72
    /\ \E c \in Cols : boot[1][c].ascii_character # SPACE

IsFullRowCall ==
    /\ IsStringCall
    /\ Len(op.arg) = BUFFER_WIDTH
    /\ \A k \in 1..Len(op.arg) : op.arg[k] # NEWLINE
    /\ old.current_col = 0

(* C9: 80 bytes other than newline written from column 0 of a row R land   *)
(* in cells (R, 0)..(R, 79) in order and leave the cursor at row R, column *)
(* 80: nothing has advanced or scrolled yet, every other row is as it was. *)
C9_FullRowDefersWrap ==
    IsFullRowCall =>
        /\ \A c \in Cols :
              WRITER.buffer[old.current_row][c] =
                  ScreenChar(Forwarded(op.arg[c + 1]), old.default_color_code)
        /\ WRITER.current_col = BUFFER_WIDTH
        /\ WRITER.current_row = old.current_row
        /\ \A r \in Rows :
              r # old.current_row => WRITER.buffer[r] = old.buffer[r]
        /\ WRITER.stores = BUFFER_WIDTH

C9_Witness ==
    /\ IsFullRowCall
    /\ old.current_row = LastRow
    /\ WRITER.current_col = BUFFER_WIDTH
    /\ WRITER.buffer[LastRow][0].ascii_character = 33
    /\ WRITER.buffer[LastRow][BUFFER_WIDTH - 1].ascii_character = 112

IsWrappingByte ==
    /\ op.name = "write_byte"
    /\ op.arg # <<NEWLINE>>
    /\ old.current_col = BUFFER_WIDTH

(* C10: a byte other than newline written with the cursor at column 80 is  *)
(* stored after the advance or the scroll, at column 0 of the cursor row,  *)
(* and leaves the column at 1; the 80 cells of the row that was full stay  *)
(* where they were when that row was above row 24, and are found in row 23 *)
(* when it was row 24 and the grid scrolled.                               *)
C10_WrapBeforePlacement ==
    IsWrappingByte =>
        /\ WRITER.current_col = 1
        /\ WRITER.buffer[WRITER.current_row][0] =
              ScreenChar(op.arg[1], old.default_color_code)
        /\ old.current_row < LastRow =>
              /\ WRITER.current_row = old.current_row + 1
              /\ WRITER.buffer[old.current_row] = old.buffer[old.current_row]
        /\ old.current_row = LastRow =>
              /\ WRITER.current_row = LastRow
              /\ WRITER.buffer[LastRow - 1] = old.buffer[LastRow]
              /\ \A c \in 1..(BUFFER_WIDTH - 1) : WRITER.buffer[LastRow][c] = Blank

C10_Witness ==
    /\ IsWrappingByte
    /\ old.current_row = LastRow
    /\ WRITER.current_col = 1
    /\ WRITER.buffer[LastRow - 1][0].ascii_character = 33
    /\ WRITER.buffer[LastRow - 1][BUFFER_WIDTH - 1].ascii_character = 112
    /\ WRITER.buffer[LastRow][0].ascii_character = op.arg[1]

(* C11: disable_cursor reads port 0x3CC once and then writes twice, 0x0A   *)
(* to the address port and then 0x10 to the data port, the pair being      *)
(* 0x3B4/0x3B5 when bit 0 of the byte read is 0 and 0x3D4/0x3D5 when it is *)
(* 1; no other port is touched.  At every point the accesses made so far   *)
(* are the beginning of that sequence.                                     *)
CursorProtocol(status) ==
    <<PortRead(972, status),
      PortWrite(IF status % 2 = 0 THEN 948 ELSE 980, 10),
      PortWrite(IF status % 2 = 0 THEN 949 ELSE 981, 16)>>

C11_CursorProtocol ==
    /\ Len(cursor.io) = CASE cursor.pc = "read" -> 0
                          [] cursor.pc = "addr" -> 1
                          [] cursor.pc = "data" -> 2
                          [] OTHER -> 3
    /\ cursor.io = SubSeq(CursorProtocol(cursor.misc_out), 1, Len(cursor.io))

C11_Witness ==
    /\ cursor.pc = "done"
    /\ cursor.misc_out = 103
    /\ Len(cursor.io) = 3
    /\ cursor.io[2].port = 980
    /\ cursor.io[3].port = 981

ReEntered == \E p \in Callers : handler[p] /\ pc[p] = "lock"

(* C12: once the context that holds the WRITER gate has tried to acquire   *)
(* it again (its panic handler is in _print), every later step leaves the  *)
(* gate locked, leaves that context waiting for the gate, and writes       *)
(* nothing to the grid or the cursor.                                      *)
C12_ReentrantDeadlock ==
    [][ReEntered =>
          /\ locked
          /\ locked'
          /\ WRITER' = WRITER
          /\ \A p \in Callers :
                handler[p] => (handler'[p] /\ pc'[p] = "lock")]_vars

C12_Witness ==
    \E p, q \in Callers :
        /\ p # q
        /\ handler[p]
        /\ pc[p] = "lock"
        /\ args[p] = PanicMessage
        /\ locked
        /\ ~handler[q]
        /\ pc[q] = "lock"
        /\ WRITER.buffer # boot

IsClearRow == op.name = "clear_row"

(* C13: clear_row(r) sets each of the 80 cells of row r to a space in the  *)
(* default attribute, changes no cell of any other row and leaves the      *)
(* cursor and the default attribute as they were.                          *)
C13_ClearRow ==
    IsClearRow =>
        /\ \A c \in Cols : WRITER.buffer[op.arg[1]][c] = Blank
        /\ \A r \in Rows : r # op.arg[1] => WRITER.buffer[r] = old.buffer[r]
        /\ WRITER.current_row = old.current_row
        /\ WRITER.current_col = old.current_col
        /\ WRITER.default_color_code = old.default_color_code
        /\ WRITER.stores = BUFFER_WIDTH
        /\ ~WRITER.panicked

C13_Witness ==
    /\ IsClearRow
    /\ op.arg[1] = 7
    /\ old.current_row = LastRow
    /\ \A c \in Cols : old.buffer[7][c] # Blank
    /\ \A c \in Cols : WRITER.buffer[7][c] = Blank
    /\ WRITER.buffer[8] # WRITER.buffer[7]

(* C14: ColorCode::new gives the byte background * 16 + foreground, so the *)
(* two colors can be read back from the byte (distinct pairs give distinct *)
(* bytes), and the console's default attribute, white on black, is 0x0F.   *)
C14_ColorCode ==
    /\ color.code = color.background * 16 + color.foreground
    /\ color.code \in 0..255
    /\ color.code \div 16 = color.background
    /\ color.code % 16 = color.foreground
    /\ WRITER.default_color_code = 15

C14_Witness ==
    /\ color.calls = 1
    /\ color.foreground = 14
    /\ color.background = 1
    /\ color.code = 30

IsWriteCall == op.name \in {"write_byte", "write_string"}

(* C15: no access to the grid made by write_byte, new_line or clear_row    *)
(* uses a row outside 0..24 or a column outside 0..79 (such an access      *)
(* would panic), whatever bytes are written; every write_byte call finds   *)
(* the cursor on a row of the grid and at a column of at most 80, and the  *)
(* store of a byte found at column 80 is made at column 0.                 *)
C15_InBounds ==
    /\ ~WRITER.panicked
    /\ ~old.panicked
    /\ \A k \in 1..Len(WRITER.log) :
          /\ WRITER.log[k].row \in Rows
          /\ WRITER.log[k].col \in 0..BUFFER_WIDTH
    /\ (IsWrappingByte /\ IsWriteCall) =>
          /\ WRITER.buffer[WRITER.current_row][0].ascii_character = op.arg[1]
          /\ WRITER.current_col = 1

C15_Witness ==
    /\ op.name = "write_string"
    /\ op.arg = Overflow
    /\ old.current_row = LastRow
    /\ old.current_col = BUFFER_WIDTH
    /\ ~WRITER.panicked
    /\ WRITER.stores > ScrollStores

RowAt(k) ==
    IF k <= Len(WRITER.log) THEN WRITER.log[k].row ELSE WRITER.current_row

(* C16: over the bytes of any write the cursor row never decreases, moves  *)
(* by at most one per byte, and stays 24 once it is 24.                    *)
C16_RowPinned ==
    IsWriteCall =>
        /\ RowAt(1) = old.current_row
        /\ \A k \in 1..Len(WRITER.log) :
              /\ RowAt(k + 1) = RowAt(k) \/ RowAt(k + 1) = RowAt(k) + 1
              /\ RowAt(k) = LastRow => RowAt(k + 1) = LastRow
        /\ old.current_row = LastRow => WRITER.current_row = LastRow

C16_Witness ==
    /\ op.name = "write_string"
    /\ op.arg = Rep(NEWLINE, BUFFER_HEIGHT - 1)
    /\ old.current_row = LastRow
    /\ WRITER.current_row = LastRow
    /\ n_ops = 3
    /\ WRITER.stores = (BUFFER_HEIGHT - 1) * ScrollStores

IsPlainWrite ==
    /\ op.name = "write_byte"
    /\ op.arg # <<NEWLINE>>
    /\ old.current_col < BUFFER_WIDTH

(* C17: write_byte(b), b not newline, with the cursor before column 80     *)
(* stores {b, default attribute} at the cursor and nowhere else, leaves    *)
(* the row and the default attribute as they were and adds one to the      *)
(* column.                                                                 *)
C17_PlainWriteFrame ==
    IsPlainWrite =>
        /\ WRITER.buffer =
              [old.buffer EXCEPT ![old.current_row][old.current_col] =
                  ScreenChar(op.arg[1], old.default_color_code)]
        /\ WRITER.stores = 1
        /\ WRITER.current_row = old.current_row
        /\ WRITER.current_col = old.current_col + 1
        /\ WRITER.default_color_code = old.default_color_code

C17_Witness ==
    /\ IsPlainWrite
    /\ op.arg = <<9>>
    /\ old.current_col = 12
    /\ old.current_row > 0
    /\ old.buffer[old.current_row][12] # WRITER.buffer[old.current_row][12]
    /\ WRITER.buffer[old.current_row][12].ascii_character = 9

IsNewlineAfterFullRow == IsNewlineCall /\ old.current_col = BUFFER_WIDTH

(* C19: a newline written when a row has just been filled (the cursor is   *)
(* at column 80) advances exactly one line: above row 24 the row grows by  *)
(* one and no cell changes, on row 24 the grid scrolls exactly once; the   *)
(* cursor ends at column 0 and no blank row is put after the full row.     *)
C19_FullRowThenNewline ==
    IsNewlineAfterFullRow =>
        /\ WRITER.current_col = 0
        /\ old.current_row < LastRow =>
              /\ WRITER.current_row = old.current_row + 1
              /\ WRITER.buffer = old.buffer
              /\ WRITER.stores = 0
        /\ old.current_row = LastRow =>
              /\ WRITER.current_row = LastRow
              /\ WRITER.stores = ScrollStores
              /\ WRITER.buffer[LastRow - 1] = old.buffer[LastRow]
              /\ LastRow > 1 => WRITER.buffer[LastRow - 2] = old.buffer[LastRow - 1]

C19_Witness ==
    /\ IsNewlineAfterFullRow
    /\ old.current_row = LastRow
    /\ WRITER.current_row = LastRow
    /\ WRITER.current_col = 0
    /\ WRITER.buffer[LastRow - 1][0].ascii_character = 33
    /\ WRITER.buffer[LastRow - 1][BUFFER_WIDTH - 1].ascii_character = 112

IsSplitCall == op.name = "write_split"

(* C20: write_string(a) followed by write_string(b) leaves the grid and    *)
(* the cursor that one write_string of a followed by b leaves, from any    *)
(* state of the Writer and for any place where the string is cut.          *)
C20_SplitIsConcat ==
    IsSplitCall =>
        LET whole == write_string(Entered(old), op.arg)
        IN  /\ WRITER.buffer = whole.buffer
            /\ WRITER.current_row = whole.current_row
            /\ WRITER.current_col = whole.current_col
            /\ WRITER.default_color_code = whole.default_color_code
            /\ ~WRITER.panicked

C20_Witness ==
    /\ IsSplitCall
    /\ op.arg = AllBytes
    /\ op.by = 128
    /\ old.current_col = BUFFER_WIDTH
    /\ old.current_row = 0
    /\ WRITER.current_row = 5
    /\ WRITER.current_col = 5
    /\ WRITER.buffer # old.buffer

====
